---- MODULE Spec2Model ----
(***************************************************************************)
(* Registration-and-capacity workflow of the school backend.               *)
(*                                                                         *)
(* The store is the SQLite database of config/database.js: the sections    *)
(* table (seeded by insertDefaultSections) and the students table.  Each   *)
(* registration request is the async handler router.post('/') of           *)
(* routes/registration.js.  The handler suspends at every `await`; the     *)
(* store executes one SQL statement at a time, so a request is a sequence  *)
(* of atomic steps, one per statement, and the steps of different          *)
(* requests interleave freely.  No statement is wrapped in a transaction.  *)
(*                                                                         *)
(* Next to the registrations stand the other routes: the status update and *)
(* the listing of routes/registration.js, the reads of routes/sections.js, *)
(* the routes of routes/admin.js behind middleware/auth.js, the contact    *)
(* routes, and the seeding done when the server starts.  Each has its own  *)
(* specification (SpecStatus, SpecList, SpecGate); SpecAll runs them next  *)
(* to the registrations.                                                   *)
(***************************************************************************)
EXTENDS Integers, Sequences, FiniteSets, TLC

(* ------------------------------ bounds --------------------------------- *)

\* Number of registration requests (they arrive one after another and may
\* all be in flight together).
NumReq == 2

\* Seeded capacities (30, 40, 50, 25, 35, 100) are scaled down to at most
\* this many seats, so that a section fills up within NumReq requests.
MaxCapacity == 1

\* Number of store statements that may fail (sqlite3 callback with err).
MaxFaults == 1

\* Number of times the server is started again on its database.
MaxBoots == 2

\* Number of registrations in the table a listing pages through, and the
\* highest page asked for.
MaxRows == 25
MaxPage == 4

\* Number of contact messages the table takes.
MaxMessages == 2

Req == 1..NumReq

Min(a, b) == IF a < b THEN a ELSE b

(* --------------------------- the section catalog ----------------------- *)

\* insertDefaultSections: the six seeded rows (name, capacity).
DefaultSections ==
    << [name |-> "Nursery",        capacity |-> 30],
       [name |-> "Primary School", capacity |-> 40],
       [name |-> "Islamiyya",      capacity |-> 50],
       [name |-> "Tahfiz",         capacity |-> 25],
       [name |-> "Higher Islamic", capacity |-> 35],
       [name |-> "Mosque/Majlis",  capacity |-> 100] >>

SeededNames == { DefaultSections[i].name : i \in DOMAIN DefaultSections }

\* The sections table after createTables + insertDefaultSections on an empty
\* database: current_enrollment DEFAULT 0, is_active DEFAULT 1.
SeededSections ==
    [ n \in SeededNames |->
        LET d == CHOOSE i \in DOMAIN DefaultSections : DefaultSections[i].name = n
        IN  [ capacity           |-> Min(DefaultSections[d].capacity, MaxCapacity),
              current_enrollment |-> 0,
              is_active          |-> 1 ] ]

(* ------------------------------ requests ------------------------------- *)

\* A field the client did not send (JavaScript undefined).
undefined == "undefined"

\* body('section').isIn([...])
ValidSectionNames ==
    {"Nursery", "Primary", "Islamiyya", "Tahfiz", "Higher Islamic", "Mosque/Majlis"}

\* body('paymentPlan').isIn([...])
ValidPaymentPlans == {"Termly Plan", "Annual Plan"}

\* validator.js isMobilePhone / isEmail are library predicates: the inputs
\* drawn below are classified by these two sets.
MobilePhones == {"+2348012345678"}
EmailAddresses ==
    {"amina@example.com", "admin@musabmemorial.edu.ng", "head@musabmemorial.edu.ng"}

isMobilePhone(p) == p \in MobilePhones
isEmail(e) == e \in EmailAddresses

\* isLength({min, max}) on a (trimmed) string.  The names drawn below carry
\* no surrounding whitespace, so trim() leaves them as they are.
isLength(s, min, max) == s # undefined /\ Len(s) >= min /\ Len(s) <= max

\* isInt({min, max})
isInt(n, min, max) == n \in Int /\ n >= min /\ n <= max

\* The fields in the order of the validation chains.
FieldOrder == << "parentName", "phone", "email", "studentName", "studentAge",
                 "section", "paymentPlan", "comments" >>

\* One validation chain: the field's value breaks its rule.
Fails(b, f) ==
    \/ f = "parentName"  /\ ~isLength(b.parentName, 2, 100)
    \/ f = "phone"       /\ ~isMobilePhone(b.phone)
    \/ f = "email"       /\ b.email # undefined /\ ~isEmail(b.email)
    \/ f = "studentName" /\ ~isLength(b.studentName, 2, 100)
    \/ f = "studentAge"  /\ ~isInt(b.studentAge, 3, 30)
    \/ f = "section"     /\ b.section \notin ValidSectionNames
    \/ f = "paymentPlan" /\ b.paymentPlan \notin ValidPaymentPlans
    \/ f = "comments"    /\ b.comments # undefined /\ ~isLength(b.comments, 0, 500)

\* A mutant of ValidationErrors: validation stops at the first failing chain.
ValidationErrors_FirstOnly(b) ==
    LET failing == { i \in DOMAIN FieldOrder : Fails(b, FieldOrder[i]) } IN
    { FieldOrder[i] : i \in { j \in failing : \A k \in failing : j <= k } }

\* registrationValidation + validationResult(req): every chain runs, the
\* result holds the failing fields.
ValidationErrors(b) ==
    { FieldOrder[i] : i \in { j \in DOMAIN FieldOrder : Fails(b, FieldOrder[j]) } }

\* The request bodies the model submits.
Body(sn, pn, ph, em, age, sec) ==
    [ parentName |-> pn, phone |-> ph, email |-> em, studentName |-> sn,
      studentAge |-> age, section |-> sec, paymentPlan |-> "Annual Plan",
      comments |-> undefined ]

\* Members of req.body the handler does not destructure: a client that tries
\* to register a student as already approved and paid.
Uninvited == [ status |-> "approved", payment_status |-> "paid" ]

\* Two students of one parent (the triples differ in student_name only), with
\* and without an email address, for Tahfiz; one submission for a second
\* seeded section; one for "Primary", which validation accepts and the
\* catalog does not hold.
WellFormedBodies ==
    { Body(sn, "Amina Yusuf", "+2348012345678", em, 7, "Tahfiz") :
        sn \in {"Fatima Yusuf", "Ali Yusuf"},
        em \in {undefined, "amina@example.com"} }
    \cup
    { Body("Fatima Yusuf", "Amina Yusuf", "+2348012345678", undefined, 7, "Nursery")
        @@ Uninvited,
      Body("Ali Yusuf", "Amina Yusuf", "+2348012345678", undefined, 7, "Primary") }

\* A comment of 501 characters.
x10 == "xxxxxxxxxx"
x100 == x10 \o x10 \o x10 \o x10 \o x10 \o x10 \o x10 \o x10 \o x10 \o x10
LongComment == x100 \o x100 \o x100 \o x100 \o x100 \o "x"

\* Age below 3, an email that is none, and a section name that is seeded
\* but not in the validation list; a body in which only that section name
\* fails; and a body in which every field fails.
MalformedBodies ==
    { Body("Ali Yusuf", "Amina Yusuf", "+2348012345678", "not-an-email", 2,
           "Primary School"),
      Body("Zainab Yusuf", "Amina Yusuf", "+2348012345678", undefined, 9,
           "Primary School"),
      [ Body("F", "A", "12345", "not-an-email", 31, "Primary School")
          EXCEPT !.paymentPlan = "Monthly Plan", !.comments = LongComment ] }

Bodies == WellFormedBodies \cup MalformedBodies

NoBody == Body(undefined, undefined, undefined, undefined, 0, undefined)

(* ------------------------------ responses ------------------------------ *)

NoResponse          == [status |-> 0,   message |-> ""]
ValidationFailed    == [status |-> 400, message |-> "Validation failed"]
Conflict            == [status |-> 409,
                        message |-> "A student with this information is already registered"]
InvalidSection      == [status |-> 400, message |-> "Selected section is not available"]
CapacityExceeded    == [status |-> 400, message |-> "Selected section is at full capacity"]
Success             == [status |-> 201, message |-> "Registration successful"]
PersistenceFailure  == [status |-> 500,
                        message |-> "Registration failed. Please try again."]

(* ------------------------- the registration identifier ----------------- *)

Digits == << "0", "1", "2", "3", "4", "5", "6", "7", "8", "9" >>

\* Number.prototype.toString(): the decimal digits of a natural number, as a
\* sequence of characters.
RECURSIVE toString(_)
toString(n) ==
    IF n < 10
    THEN << Digits[n + 1] >>
    ELSE toString(n \div 10) \o << Digits[(n % 10) + 1] >>

\* String.prototype.padStart(targetLength, padString) for a one-character pad.
RECURSIVE padStart(_, _, _)
padStart(str, targetLength, pad) ==
    IF Len(str) >= targetLength
    THEN str
    ELSE padStart(<< pad >> \o str, targetLength, pad)

\* A mutant of RegistrationId: the id is not padded.
RegistrationId_Unpadded(id) == << "M", "B", "U" >> \o toString(id)

\* `MBU${result.id.toString().padStart(6, '0')}`
RegistrationId(id) == << "M", "B", "U" >> \o padStart(toString(id), 6, "0")

\* What res.json carries besides status and message: the errors of a 400
\* (the failing fields) and the data of a 201.
NoPayload == [ errors |-> {}, registrationId |-> << >>, studentId |-> 0 ]

\* data: { registrationId, studentId: result.id }
Registered(id) ==
    [ errors |-> {}, registrationId |-> RegistrationId(id), studentId |-> id ]

\* this.lastID of the statement that inserted: ids are handed out 1, 2, 3, ...
\* and no row is ever deleted, so it is the number of rows.
LastId(rows) == Len(rows)

(* ------------------------- statements of the store --------------------- *)

\* A mutant of ExistingStudent: the duplicate check is passed over.
ExistingStudent_Skipped(rows, b) == FALSE

\* Mutant of ExistingStudent: the lookup also matches on the section.
ExistingStudent_PerSection(rows, b) ==
    \E i \in DOMAIN rows :
        /\ rows[i].student_name = b.studentName
        /\ rows[i].parent_name  = b.parentName
        /\ rows[i].phone        = b.phone
        /\ rows[i].section      = b.section

\* SELECT id FROM students WHERE student_name = ? AND parent_name = ? AND phone = ?
\* (truthy when a row matches).
ExistingStudent(rows, b) ==
    \E i \in DOMAIN rows :
        /\ rows[i].student_name = b.studentName
        /\ rows[i].parent_name  = b.parentName
        /\ rows[i].phone        = b.phone

\* SELECT * FROM sections WHERE name = ? AND is_active = 1
\* db.get resolves with the row or with undefined: <<row>> or << >>.
SelectSection(secs, name) ==
    IF name \in DOMAIN secs /\ secs[name].is_active = 1
    THEN << secs[name] >>
    ELSE << >>

\* Mutant of AtCapacity: > instead of >=.
AtCapacity_OffByOne(info) == info.current_enrollment > info.capacity

\* if (sectionInfo.current_enrollment >= sectionInfo.capacity)
AtCapacity(info) == info.current_enrollment >= info.capacity

\* A mutant of InsertStudent: status and payment_status are taken from the
\* body when it carries them.
InsertStudent_FromBody(rows, b) ==
    Append(rows, [ id             |-> Len(rows) + 1,
                   student_name   |-> b.studentName,
                   parent_name    |-> b.parentName,
                   phone          |-> b.phone,
                   section        |-> b.section,
                   status         |-> IF "status" \in DOMAIN b
                                      THEN b.status ELSE "pending",
                   payment_status |-> IF "payment_status" \in DOMAIN b
                                      THEN b.payment_status ELSE "unpaid" ])

\* INSERT INTO students (...) VALUES (...): id is AUTOINCREMENT (rows are never
\* deleted, so the next id is the row count plus one); status and
\* payment_status take their column defaults.  Columns no modelled statement
\* reads (student_age, email, payment_plan, comments, timestamps) are left out.
InsertStudent(rows, b) ==
    Append(rows, [ id             |-> Len(rows) + 1,
                   student_name   |-> b.studentName,
                   parent_name    |-> b.parentName,
                   phone          |-> b.phone,
                   section        |-> b.section,
                   status         |-> "pending",
                   payment_status |-> "unpaid" ])

\* Mutant of IncrementEnrollment: the UPDATE without its WHERE clause.
IncrementEnrollment_NoWhere(secs, name) ==
    [ n \in DOMAIN secs |-> [ secs[n] EXCEPT !.current_enrollment = @ + 1 ] ]

\* A mutant of IncrementEnrollment: the counter never passes the capacity.
IncrementEnrollment_Saturating(secs, name) ==
    [ n \in DOMAIN secs |->
        IF n = name
        THEN [ secs[n] EXCEPT !.current_enrollment = Min(@ + 1, secs[n].capacity) ]
        ELSE secs[n] ]

\* A mutant of IncrementEnrollment: the counter rises by two.
IncrementEnrollment_ByTwo(secs, name) ==
    [ n \in DOMAIN secs |->
        IF n = name
        THEN [ secs[n] EXCEPT !.current_enrollment = @ + 2 ]
        ELSE secs[n] ]

\* UPDATE sections SET current_enrollment = current_enrollment + 1 WHERE name = ?
IncrementEnrollment(secs, name) ==
    [ n \in DOMAIN secs |->
        IF n = name
        THEN [ secs[n] EXCEPT !.current_enrollment = @ + 1 ]
        ELSE secs[n] ]

\* Mutant of ShouldNotify: the notification is sent without looking at email.
ShouldNotify_Always(b) == TRUE

\* if (email) { try { await sendEmail(...) } catch { log } }
ShouldNotify(b) == b.email # undefined

\* Mutant of ResponseAfterEmail: the error of sendEmail reaches the outer catch.
ResponseAfterEmail_Propagates(sent) ==
    IF sent THEN Success ELSE PersistenceFailure

\* The response after the notification attempt resolved: the catch block
\* only logs, so the handler goes on to res.status(201) either way.
ResponseAfterEmail(sent) == Success

(* -------------------------------- state -------------------------------- *)

VARIABLES
    sections,     \* sections table: name -> row
    students,     \* students table: sequence of rows in id order
    pc,           \* per request: the statement it waits on
    body,         \* per request: req.body
    sectionInfo,  \* per request: the handler's local sectionInfo
    result,       \* per request: result.id of the INSERT (0 before it)
    response,     \* per request: the response sent (NoResponse before it)
    payload,      \* per request: errors / data of the response
    faults,       \* number of store statements that failed so far
    inserts,      \* history: rows inserted by the request
    increments,   \* history: counter increments done by the request
    notifies,     \* history: sendEmail calls made by the request
    statements,   \* history: store statements issued by the request
    emailError,   \* history: sendEmail threw and the handler's catch logged it
    pre,          \* history: the store when the request arrived
    overlapped,   \* history: another request was in flight during this one
    patch,        \* the last PATCH /:id/status request and its response
    boots,        \* number of times the server was started again
    admins,       \* admin_users table: sequence of rows in id order
    gate,         \* the last request to a route behind authenticateToken
    listing,      \* the current listing request: query, position, answer
    messages,     \* contact_messages table: sequence of rows in id order
    contact       \* the last request to the contact routes and its response

store   == << sections, students >>
locals  == << pc, body, sectionInfo, result, response, payload >>
history == << inserts, increments, notifies, statements, emailError, pre, overlapped >>
\* What the registration handler never touches.
outside == << patch, boots, admins, gate, listing, messages, contact >>
vars    == << sections, students, pc, body, sectionInfo, result, response,
              payload, faults, inserts, increments, notifies, statements,
              emailError, pre, overlapped, outside >>

InFlight(q) == pc[q] \notin {"idle", "done"}

\* No PATCH /:id/status request has been made.
NoPatch ==
    [ credential |-> "", id |-> 0, status |-> "", response |-> NoResponse,
      before |-> << >> ]

\* bcrypt.hash(password, 10), and what bcrypt.compare accepts for it.
hash(password) == << "$2a$10$", password >>
compare(password, password_hash) == password_hash = hash(password)

\* createDefaultAdmin: INSERT OR IGNORE INTO admin_users; username is UNIQUE.
createDefaultAdmin(rows) ==
    IF \E i \in DOMAIN rows : rows[i].username = "admin"
    THEN rows
    ELSE Append(rows, [ id            |-> Len(rows) + 1,
                        username      |-> "admin",
                        email         |-> "admin@musabmemorial.edu.ng",
                        password_hash |-> hash("admin123"),
                        role          |-> "super_admin" ])

\* No request to a protected route has been made.
NoGate ==
    [ route |-> "", authorization |-> << >>, response |-> NoResponse,
      handler |-> FALSE, before |-> << >>, body |-> << >> ]

\* No listing has been asked for.
NoListing ==
    [ route |-> "", query |-> << >>, pc |-> "idle", data |-> << >>, total |-> 0,
      pages |-> 0, response |-> NoResponse, seen |-> << >>, counted |-> << >> ]

\* No request to the contact routes has been made.
NoContact ==
    [ route |-> "", id |-> 0, status |-> "", response |-> NoResponse,
      messageId |-> << >>, before |-> << >>, body |-> << >>, emails |-> << >> ]

\* No request is in flight, none has been answered.
RegistrationIdle ==
    /\ pc          = [r \in Req |-> "idle"]
    /\ body        = [r \in Req |-> NoBody]
    /\ sectionInfo = [r \in Req |-> << >>]
    /\ result      = [r \in Req |-> 0]
    /\ response    = [r \in Req |-> NoResponse]
    /\ payload     = [r \in Req |-> NoPayload]
    /\ faults      = 0
    /\ inserts     = [r \in Req |-> 0]
    /\ increments  = [r \in Req |-> 0]
    /\ notifies    = [r \in Req |-> 0]
    /\ statements  = [r \in Req |-> 0]
    /\ emailError  = [r \in Req |-> FALSE]
    /\ overlapped  = [r \in Req |-> FALSE]

\* No request to the admin side has been made.
AdminIdle ==
    /\ patch = NoPatch
    /\ boots = 0
    /\ admins = createDefaultAdmin(<< >>)
    /\ gate = NoGate
    /\ listing = NoListing
    /\ contact = NoContact

\* Nothing but registrations has happened.
OutsideIdle ==
    /\ AdminIdle
    /\ messages = << >>

Init ==
    /\ sections = SeededSections
    /\ students = << >>
    /\ pre      = [r \in Req |-> [students |-> << >>, sections |-> SeededSections]]
    /\ RegistrationIdle
    /\ OutsideIdle

\* res.status(...).json(...): the request is over.
Respond(r, resp, data) ==
    /\ response' = [response EXCEPT ![r] = resp]
    /\ payload'  = [payload EXCEPT ![r] = data]
    /\ pc'       = [pc EXCEPT ![r] = "done"]

\* The handler goes on to its next await.
Goto(r, label) ==
    /\ pc' = [pc EXCEPT ![r] = label]
    /\ UNCHANGED << response, payload >>

\* The request issues one statement to the store.
Issue(r) == statements' = [statements EXCEPT ![r] = @ + 1]

\* A store statement fails: db.get / db.run reject, the handler's outer catch
\* answers 500.  The failed statement changes nothing.
StatementFails(r) ==
    /\ faults < MaxFaults
    /\ faults' = faults + 1
    /\ Respond(r, PersistenceFailure, NoPayload)
    /\ UNCHANGED << store, body, sectionInfo, result,
                    inserts, increments, notifies, emailError, pre, overlapped >>

\* A request arrives: validation runs, then the duplicate query is issued.
\* Requests are numbered in arrival order.
Submit(r) ==
    /\ pc[r] = "idle"
    /\ \A q \in Req : q < r => pc[q] # "idle"
    /\ \E b \in Bodies :
        /\ body' = [body EXCEPT ![r] = b]
        /\ IF ValidationErrors(b) # {}
           THEN Respond(r, ValidationFailed,
                        [NoPayload EXCEPT !.errors = ValidationErrors(b)])
           ELSE Goto(r, "checkDup")
    /\ pre' = [pre EXCEPT ![r] = [students |-> students, sections |-> sections]]
    /\ overlapped' = [q \in Req |->
                        IF q = r THEN \E p \in Req \ {r} : InFlight(p)
                        ELSE overlapped[q] \/ InFlight(q)]
    /\ UNCHANGED << store, sectionInfo, result, faults, inserts, increments,
                    notifies, statements, emailError, outside >>

\* await db.get('SELECT id FROM students WHERE ...'); if (existingStudent) 409
CheckDuplicate(r) ==
    /\ pc[r] = "checkDup"
    /\ Issue(r)
    /\ \/ StatementFails(r)
       \/ /\ IF ExistingStudent(students, body[r])
             THEN Respond(r, Conflict, NoPayload)
             ELSE Goto(r, "getSection")
          /\ UNCHANGED << store, body, sectionInfo, result, faults,
                          inserts, increments, notifies, emailError, pre, overlapped >>
    /\ UNCHANGED outside

\* await db.get('SELECT * FROM sections WHERE ...'); if (!sectionInfo) 400;
\* if (at capacity) 400
GetSection(r) ==
    /\ pc[r] = "getSection"
    /\ Issue(r)
    /\ \/ StatementFails(r)
       \/ LET info == SelectSection(sections, body[r].section) IN
          /\ sectionInfo' = [sectionInfo EXCEPT ![r] = info]
          /\ IF info = << >>
             THEN Respond(r, InvalidSection, NoPayload)
             ELSE IF AtCapacity(info[1])
             THEN Respond(r, CapacityExceeded, NoPayload)
             ELSE Goto(r, "insert")
          /\ UNCHANGED << store, body, result, faults,
                          inserts, increments, notifies, emailError, pre, overlapped >>
    /\ UNCHANGED outside

\* A mutant of Insert: the handler goes from the INSERT straight to the
\* notification.
Insert_ThenNotify(r) ==
    /\ pc[r] = "insert"
    /\ Issue(r)
    /\ \/ StatementFails(r)
       \/ /\ students' = InsertStudent(students, body[r])
          /\ result'   = [result EXCEPT ![r] = LastId(students')]
          /\ inserts'  = [inserts EXCEPT ![r] = @ + 1]
          /\ Goto(r, "email")
          /\ UNCHANGED << sections, body, sectionInfo, faults,
                          increments, notifies, emailError, pre, overlapped >>
    /\ UNCHANGED outside

\* const result = await db.run('INSERT INTO students ...')
Insert(r) ==
    /\ pc[r] = "insert"
    /\ Issue(r)
    /\ \/ StatementFails(r)
       \/ /\ students' = InsertStudent(students, body[r])
          /\ result'   = [result EXCEPT ![r] = LastId(students')]
          /\ inserts'  = [inserts EXCEPT ![r] = @ + 1]
          /\ Goto(r, "update")
          /\ UNCHANGED << sections, body, sectionInfo, faults,
                          increments, notifies, emailError, pre, overlapped >>
    /\ UNCHANGED outside

\* await db.run('UPDATE sections SET current_enrollment = ...'); without an
\* email the handler goes straight on to res.status(201).
Update(r) ==
    /\ pc[r] = "update"
    /\ Issue(r)
    /\ \/ StatementFails(r)
       \/ /\ sections'   = IncrementEnrollment(sections, body[r].section)
          /\ increments' = [increments EXCEPT ![r] = @ + 1]
          /\ IF ShouldNotify(body[r])
             THEN Goto(r, "email")
             ELSE Respond(r, Success, Registered(result[r]))
          /\ UNCHANGED << students, body, sectionInfo, result, faults,
                          inserts, notifies, emailError, pre, overlapped >>
    /\ UNCHANGED outside

\* await sendEmail(...) resolves or throws; then res.status(201)
Notify(r) ==
    /\ pc[r] = "email"
    /\ \E sent \in BOOLEAN :
        /\ notifies'   = [notifies EXCEPT ![r] = @ + 1]
        /\ emailError' = [emailError EXCEPT ![r] = ~sent]
        /\ Respond(r, ResponseAfterEmail(sent), Registered(result[r]))
    /\ UNCHANGED << store, body, sectionInfo, result, faults,
                    inserts, increments, statements, pre, overlapped, outside >>

Next ==
    \E r \in Req :
        \/ Submit(r)
        \/ CheckDuplicate(r)
        \/ GetSection(r)
        \/ Insert(r)
        \/ Update(r)
        \/ Notify(r)

Spec == Init /\ [][Next]_vars

(* ------------------------- status of a registration -------------------- *)

\* The stores status updates and listings start from: the registrations of
\* Enrolment made one after the other, each by the registration handler's own
\* statements.
Enrolment ==
    << Body("Fatima Yusuf", "Amina Yusuf", "+2348012345678", undefined, 7, "Tahfiz"),
       Body("Ali Yusuf", "Amina Yusuf", "+2348012345678", undefined, 7, "Nursery"),
       Body("Zainab Yusuf", "Amina Yusuf", "+2348012345678", undefined, 7, "Tahfiz") >>

EmptyStore == [ students |-> << >>, sections |-> SeededSections ]

\* router.post('/') run alone and without store fault, from arrival to answer.
Register(st, b) ==
    LET info == SelectSection(st.sections, b.section) IN
    IF \/ ValidationErrors(b) # {}
       \/ ExistingStudent(st.students, b)
       \/ info = << >>
       \/ AtCapacity(info[1])
    THEN st
    ELSE [ students |-> InsertStudent(st.students, b),
           sections |-> IncrementEnrollment(st.sections, b.section) ]

RECURSIVE RegisterAll(_, _)
RegisterAll(st, bs) ==
    IF bs = << >> THEN st ELSE RegisterAll(Register(st, Head(bs)), Tail(bs))

Stores == { RegisterAll(EmptyStore, SubSeq(Enrolment, 1, k)) : k \in 0..Len(Enrolment) }

\* What a client sends in the Authorization header of a request.
Credentials == { "none", "invalid", "expired", "valid" }

\* req.body.status of a status update: the three statuses, a value outside
\* them, and nothing.
StatusInputs == { "pending", "approved", "rejected", "archived", undefined }

\* A mutant of StatusValues: one more status is accepted.
StatusValues_WithArchived == { "pending", "approved", "rejected", "archived" }

\* ['pending', 'approved', 'rejected']
StatusValues == { "pending", "approved", "rejected" }

InvalidStatus     == [status |-> 400,
                      message |-> "Invalid status. Must be pending, approved, or rejected"]
RegistrationNotFound == [status |-> 404, message |-> "Registration not found"]
StatusUpdated     == [status |-> 200,
                      message |-> "Registration status updated successfully"]
StatusUpdateFailure == [status |-> 500,
                        message |-> "Failed to update registration status"]

\* A mutant of UpdateStatus: only a pending registration changes its status.
UpdateStatus_FromPendingOnly(rows, id, status) ==
    [ i \in DOMAIN rows |->
        IF rows[i].id = id /\ rows[i].status = "pending"
        THEN [ rows[i] EXCEPT !.status = status ]
        ELSE rows[i] ]

\* UPDATE students SET status = ?, updated_at = CURRENT_TIMESTAMP WHERE id = ?
UpdateStatus(rows, id, status) ==
    [ i \in DOMAIN rows |->
        IF rows[i].id = id THEN [ rows[i] EXCEPT !.status = status ] ELSE rows[i] ]

\* result.changes: the rows the WHERE clause matched.
Changes(rows, id) == Cardinality({ i \in DOMAIN rows : rows[i].id = id })

\* router.patch('/:id/status') for requests drawn from the given credentials
\* and statuses: the route has no middleware, so whatever credential the
\* request carries is not looked at.  The handler has one await, the UPDATE.
SetStatusFor(credentials, statuses) ==
    \E credential \in credentials, id \in 1..(Len(students) + 1),
       status \in statuses :
        /\ IF status \notin StatusValues
           THEN /\ patch' = [ credential |-> credential, id |-> id,
                              status |-> status, response |-> InvalidStatus,
                              before |-> students ]
                /\ UNCHANGED << students, faults >>
           ELSE \/ /\ faults < MaxFaults
                   /\ faults' = faults + 1
                   /\ patch' = [ credential |-> credential, id |-> id,
                                 status |-> status,
                                 response |-> StatusUpdateFailure,
                                 before |-> students ]
                   /\ UNCHANGED students
                \/ /\ students' = UpdateStatus(students, id, status)
                   /\ patch' = [ credential |-> credential, id |-> id,
                                 status |-> status,
                                 response |-> IF Changes(students, id) = 0
                                              THEN RegistrationNotFound
                                              ELSE StatusUpdated,
                                 before |-> students ]
                   /\ UNCHANGED faults
        /\ UNCHANGED << sections, locals, history, boots, admins, gate, listing, messages, contact >>

(* ------------------------- starting the server again ------------------- *)

\* The sections table before any row is inserted.
NoSections == [ n \in {} |-> 0 ]

\* The row of a seeded section: capacity as given (scaled), the column
\* defaults current_enrollment 0 and is_active 1.
SeedRow(d) ==
    [ capacity           |-> Min(d.capacity, MaxCapacity),
      current_enrollment |-> 0,
      is_active          |-> 1 ]

\* A mutant of InsertOrIgnore: INSERT OR REPLACE.
InsertOrIgnore_Replace(secs, d) ==
    [ n \in DOMAIN secs \cup {d.name} |-> IF n = d.name THEN SeedRow(d) ELSE secs[n] ]

\* INSERT OR IGNORE INTO sections ...: sections.name is UNIQUE, a row whose
\* name is taken is dropped.
InsertOrIgnore(secs, d) ==
    IF d.name \in DOMAIN secs
    THEN secs
    ELSE [ n \in DOMAIN secs \cup {d.name} |-> IF n = d.name THEN SeedRow(d) ELSE secs[n] ]

\* for (const section of sections) await this.run(INSERT OR IGNORE ...)
RECURSIVE insertDefaultSections(_, _)
insertDefaultSections(secs, ds) ==
    IF ds = << >>
    THEN secs
    ELSE insertDefaultSections(InsertOrIgnore(secs, Head(ds)), Tail(ds))

\* db.init() of a new server process on the existing database file:
\* CREATE TABLE IF NOT EXISTS leaves the tables, then the sections are
\* seeded.  The server listens only after init, so no request is in flight.
Restart ==
    /\ boots < MaxBoots
    /\ \A r \in Req : ~InFlight(r)
    /\ boots' = boots + 1
    /\ sections' = insertDefaultSections(sections, DefaultSections)
    /\ admins' = createDefaultAdmin(admins)
    /\ UNCHANGED << students, locals, faults, history, patch, gate, listing, messages, contact >>

SetStatus == SetStatusFor(Credentials, StatusInputs)

\* The store holds some registrations, nothing is in flight.
InitStatus ==
    /\ \E st \in Stores :
        /\ students = st.students
        /\ sections = st.sections
        /\ pre = [r \in Req |-> [students |-> st.students, sections |-> st.sections]]
    /\ RegistrationIdle
    /\ OutsideIdle

NextStatus == SetStatus \/ Restart

SpecStatus == InitStatus /\ [][NextStatus]_vars

(* ------------------------- the admin gate ------------------------------ *)

\* req.headers['authorization'] as the words split(' ') gives; no word at
\* all when the header is absent.
NoHeader == << >>

Authorizations ==
    { NoHeader, << "Bearer" >>, << "Bearer", "" >>,
      << "Bearer", "admin.jwt" >>, << "Bearer", "expired.jwt" >>,
      << "Bearer", "forged.jwt" >> }

\* jwt.verify(token, JWT_SECRET): the tokens signed by POST /login that have
\* not expired, with their payload; every other token is an error.
SignedTokens == { "admin.jwt" }
Payload(token) == [ id |-> 1, username |-> "admin", role |-> "super_admin" ]

AccessTokenRequired == [status |-> 401, message |-> "Access token required"]
InvalidToken        == [status |-> 403, message |-> "Invalid or expired token"]
NoUser              == [ id |-> 0, username |-> "", role |-> "" ]

\* const token = authHeader && authHeader.split(' ')[1]
Token(authHeader) ==
    IF authHeader = NoHeader THEN undefined
    ELSE IF Len(authHeader) >= 2 THEN authHeader[2]
    ELSE undefined

\* A mutant of authenticateToken: the verification error is ignored.
authenticateToken_NoVerify(authHeader) ==
    LET token == Token(authHeader) IN
    IF token = undefined \/ token = ""
    THEN [ next |-> FALSE, response |-> AccessTokenRequired, user |-> NoUser ]
    ELSE [ next |-> TRUE, response |-> NoResponse, user |-> Payload("admin.jwt") ]

\* authenticateToken: 401 without a token, 403 when jwt.verify fails, else
\* req.user is set and next() runs the handler.
authenticateToken(authHeader) ==
    LET token == Token(authHeader) IN
    IF token = undefined \/ token = ""
    THEN [ next |-> FALSE, response |-> AccessTokenRequired, user |-> NoUser ]
    ELSE IF token \notin SignedTokens
    THEN [ next |-> FALSE, response |-> InvalidToken, user |-> NoUser ]
    ELSE [ next |-> TRUE, response |-> NoResponse, user |-> Payload(token) ]

\* req.body of PUT /profile.
ProfileBodies ==
    [ email           : { undefined, "admin@musabmemorial.edu.ng",
                          "head@musabmemorial.edu.ng", "amina@example.com",
                          "not-an-email" },
      currentPassword : { undefined, "admin123", "letmein1", "abc" },
      newPassword     : { undefined, "secret99", "abc" } ]

\* The validation chains of PUT /profile: the failing fields.
ProfileErrors(b) ==
    { f \in { "email", "currentPassword", "newPassword" } :
        \/ f = "email" /\ b.email # undefined /\ ~isEmail(b.email)
        \/ f = "currentPassword" /\ b.currentPassword # undefined
                                 /\ Len(b.currentPassword) < 6
        \/ f = "newPassword" /\ b.newPassword # undefined
                             /\ Len(b.newPassword) < 6 }

AdminNotFound     == [status |-> 404, message |-> "Admin not found"]
EmailInUse        == [status |-> 409, message |-> "Email already in use"]
PasswordIncorrect == [status |-> 400, message |-> "Current password is incorrect"]
NoValidFields     == [status |-> 400, message |-> "No valid fields to update"]
ProfileUpdated    == [status |-> 200, message |-> "Profile updated successfully"]
ProfileFailure    == [status |-> 500, message |-> "Failed to update profile"]
DashboardData     == [status |-> 200, message |-> ""]
DashboardFailure  == [status |-> 500, message |-> "Failed to fetch dashboard data"]

\* A mutant of UpdateProfile: the new email is written as soon as it is found
\* free, before the password is compared.
UpdateProfile_EmailFirst(rows, user, b) ==
    LET found == { i \in DOMAIN rows : rows[i].id = user.id } IN
    IF ProfileErrors(b) # {}
    THEN [ response |-> ValidationFailed, rows |-> rows ]
    ELSE IF found = {}
    THEN [ response |-> AdminNotFound, rows |-> rows ]
    ELSE
    LET a        == CHOOSE i \in found : TRUE
        admin    == rows[a]
        newEmail == b.email # undefined /\ b.email # admin.email
        newPass  == b.currentPassword # undefined /\ b.newPassword # undefined
        emailed  == [ rows EXCEPT ![a].email = IF newEmail THEN b.email ELSE @ ]
    IN
    IF newEmail /\ \E i \in DOMAIN rows : rows[i].email = b.email /\ rows[i].id # user.id
    THEN [ response |-> EmailInUse, rows |-> rows ]
    ELSE IF newPass /\ ~compare(b.currentPassword, admin.password_hash)
    THEN [ response |-> PasswordIncorrect, rows |-> emailed ]
    ELSE IF ~newEmail /\ ~newPass
    THEN [ response |-> NoValidFields, rows |-> rows ]
    ELSE [ response |-> ProfileUpdated,
           rows |-> [ emailed EXCEPT
                        ![a].password_hash = IF newPass THEN hash(b.newPassword)
                                             ELSE @ ] ]

\* The handler of PUT /profile for req.user and req.body: its response and
\* the admin_users table it leaves.  Requests to the admin routes are served
\* one at a time here.
UpdateProfile(rows, user, b) ==
    LET found == { i \in DOMAIN rows : rows[i].id = user.id } IN
    IF ProfileErrors(b) # {}
    THEN [ response |-> ValidationFailed, rows |-> rows ]
    ELSE IF found = {}
    THEN [ response |-> AdminNotFound, rows |-> rows ]
    ELSE
    LET a        == CHOOSE i \in found : TRUE
        admin    == rows[a]
        newEmail == b.email # undefined /\ b.email # admin.email
        newPass  == b.currentPassword # undefined /\ b.newPassword # undefined
    IN
    IF newEmail /\ \E i \in DOMAIN rows : rows[i].email = b.email /\ rows[i].id # user.id
    THEN [ response |-> EmailInUse, rows |-> rows ]
    ELSE IF newPass /\ ~compare(b.currentPassword, admin.password_hash)
    THEN [ response |-> PasswordIncorrect, rows |-> rows ]
    ELSE IF ~newEmail /\ ~newPass
    THEN [ response |-> NoValidFields, rows |-> rows ]
    ELSE [ response |-> ProfileUpdated,
           rows |-> [ rows EXCEPT ![a] =
                        [ admin EXCEPT
                            !.email = IF newEmail THEN b.email ELSE @,
                            !.password_hash = IF newPass THEN hash(b.newPassword)
                                              ELSE @ ] ] ]

\* router.put('/profile', authenticateToken, [...], handler)
PutProfile ==
    \E authHeader \in Authorizations, b \in ProfileBodies :
        LET auth == authenticateToken(authHeader) IN
        /\ IF ~auth.next
           THEN /\ gate' = [ route |-> "PUT /profile", authorization |-> authHeader,
                             response |-> auth.response, handler |-> FALSE,
                             before |-> admins, body |-> << >> ]
                /\ UNCHANGED << admins, faults >>
           ELSE \/ /\ faults < MaxFaults
                   /\ ProfileErrors(b) = {}
                   /\ faults' = faults + 1
                   /\ gate' = [ route |-> "PUT /profile", authorization |-> authHeader,
                                response |-> ProfileFailure, handler |-> TRUE,
                                before |-> admins, body |-> b ]
                   /\ UNCHANGED admins
                \/ LET done == UpdateProfile(admins, auth.user, b) IN
                   /\ admins' = done.rows
                   /\ gate' = [ route |-> "PUT /profile", authorization |-> authHeader,
                                response |-> done.response, handler |-> TRUE,
                                before |-> admins, body |-> b ]
                   /\ UNCHANGED faults
        /\ UNCHANGED << store, locals, history, patch, boots, listing, messages, contact >>

\* router.get('/dashboard', authenticateToken, handler) for requests with the
\* given headers: SELECT statements only.
GetDashboardFor(authorizations) ==
    \E authHeader \in authorizations :
        LET auth == authenticateToken(authHeader) IN
        /\ IF ~auth.next
           THEN /\ gate' = [ route |-> "GET /dashboard", authorization |-> authHeader,
                             response |-> auth.response, handler |-> FALSE,
                             before |-> admins, body |-> << >> ]
                /\ UNCHANGED faults
           ELSE \/ /\ faults < MaxFaults
                   /\ faults' = faults + 1
                   /\ gate' = [ route |-> "GET /dashboard", authorization |-> authHeader,
                                response |-> DashboardFailure, handler |-> TRUE,
                                before |-> admins, body |-> << >> ]
                \/ /\ gate' = [ route |-> "GET /dashboard", authorization |-> authHeader,
                                response |-> DashboardData, handler |-> TRUE,
                                before |-> admins, body |-> << >> ]
                   /\ UNCHANGED faults
        /\ UNCHANGED << store, locals, history, patch, boots, admins, listing, messages, contact >>

GetDashboard == GetDashboardFor(Authorizations)

NextGate == PutProfile \/ GetDashboard

SpecGate == InitStatus /\ [][NextGate]_vars

\* The admin_users table: the default administrator alone, or next to a
\* second administrator.  The schema takes any number of rows and the
\* handler of PUT /profile looks for other rows holding the new email; no
\* route inserts an administrator, further rows are put into the database
\* directly.
AdminTables ==
    { createDefaultAdmin(<< >>),
      Append(createDefaultAdmin(<< >>),
             [ id            |-> 2,
               username      |-> "head",
               email         |-> "head@musabmemorial.edu.ng",
               password_hash |-> hash("letmein1"),
               role          |-> "admin" ]) }

\* PUT /profile applied to each of these tables.
InitProfile ==
    /\ sections = SeededSections
    /\ students = << >>
    /\ pre      = [r \in Req |-> [students |-> << >>, sections |-> SeededSections]]
    /\ RegistrationIdle
    /\ patch = NoPatch
    /\ boots = 0
    /\ admins \in AdminTables
    /\ gate = NoGate
    /\ listing = NoListing
    /\ contact = NoContact
    /\ messages = << >>
    /\ faults = 0

NextProfile == PutProfile

SpecProfile == InitProfile /\ [][NextProfile]_vars

(* ------------------------- listing registrations ----------------------- *)

\* req.query of a listing: each of status, section, page, limit is sent or
\* not (page and limit together here).
Queries ==
    { [ k \in filters \cup paging |-> full[k] ] :
        full \in [ status  : { "pending", "approved" },
                   section : { "Islamiyya", "Primary School" },
                   page    : 1..MaxPage,
                   limit   : { 1, 10 } ],
        filters \in SUBSET { "status", "section" },
        paging \in { {}, { "page", "limit" } } }

\* const { ..., page = 1, limit = 20 } = req.query
Page(query)  == IF "page" \in DOMAIN query THEN query.page ELSE 1
Limit(query) == IF "limit" \in DOMAIN query THEN query.limit ELSE 20

\* A mutant of Offset: pages counted from 0.
Offset_FromPageZero(query) == Page(query) * Limit(query)

\* const offset = (page - 1) * limit
Offset(query) == (Page(query) - 1) * Limit(query)

RECURSIVE Reverse(_)
Reverse(seq) ==
    IF seq = << >> THEN << >> ELSE Append(Reverse(Tail(seq)), Head(seq))

\* SELECT * FROM students WHERE 1=1 [AND status = ?] [AND section = ?]
\* ORDER BY created_at DESC LIMIT ? OFFSET ?.  created_at never decreases
\* with the id, so the rows come latest id first (rows of the same second
\* may come in either order; nothing here depends on it).
SelectStudents(rows, query) ==
    LET matching == SelectSeq(rows, LAMBDA row :
                        /\ "status" \in DOMAIN query => row.status = query.status
                        /\ "section" \in DOMAIN query => row.section = query.section)
        ordered  == Reverse(matching)
    IN  SubSeq(ordered, Offset(query) + 1,
               Min(Offset(query) + Limit(query), Len(ordered)))

\* A mutant of CountStudents: the count query forgets the section filter.
CountStudents_NoSection(rows, query) ==
    Len(SelectSeq(rows, LAMBDA row :
            "status" \in DOMAIN query => row.status = query.status))

\* SELECT COUNT(*) as total FROM students WHERE 1=1 [AND status = ?]
\* [AND section = ?]
CountStudents(rows, query) ==
    Len(SelectSeq(rows, LAMBDA row :
            /\ "status" \in DOMAIN query => row.status = query.status
            /\ "section" \in DOMAIN query => row.section = query.section))

\* Math.ceil(total / limit)
Ceil(total, limit) ==
    IF total % limit = 0 THEN total \div limit ELSE (total \div limit) + 1

Listed      == [status |-> 200, message |-> ""]
ListFailure == [status |-> 500, message |-> "Failed to fetch registrations"]

\* router.get('/') for the given queries: the handler up to its first await,
\* the rows query.
ListRowsFor(queries) ==
    /\ listing.pc # "count"
    /\ \E query \in queries :
        \/ /\ faults < MaxFaults
           /\ faults' = faults + 1
           /\ listing' = [ NoListing EXCEPT !.route = "GET /registration",
                             !.query = query, !.pc = "done",
                             !.response = ListFailure, !.seen = students ]
        \/ /\ listing' = [ NoListing EXCEPT !.route = "GET /registration",
                             !.query = query, !.pc = "count",
                             !.data = SelectStudents(students, query),
                             !.seen = students ]
           /\ UNCHANGED faults
    /\ UNCHANGED << store, locals, history, patch, boots, admins, gate, messages, contact >>

ListRows == ListRowsFor(Queries)

\* The count query, then res.json with data and pagination.
ListCount ==
    /\ listing.pc = "count"
    /\ \/ /\ faults < MaxFaults
          /\ faults' = faults + 1
          /\ listing' = [ listing EXCEPT !.pc = "done", !.data = << >>,
                            !.response = ListFailure, !.counted = students ]
       \/ LET total == CountStudents(students, listing.query) IN
          /\ listing' = [ listing EXCEPT !.pc = "done", !.total = total,
                            !.pages = Ceil(total, Limit(listing.query)),
                            !.response = Listed, !.counted = students ]
          /\ UNCHANGED faults
    /\ UNCHANGED << store, locals, history, patch, boots, admins, gate, messages, contact >>

\* The sections table as seeded, capacities as the source gives them.
FullSections ==
    [ n \in SeededNames |->
        LET d == CHOOSE i \in DOMAIN DefaultSections : DefaultSections[i].name = n
        IN  [ capacity           |-> DefaultSections[d].capacity,
              current_enrollment |-> 0,
              is_active          |-> 1 ] ]

\* The registration of the i-th pupil: pupils alternate between two
\* sections.
Pupil(i) ==
    Body("Pupil " \o ToString(i), "Amina Yusuf", "+2348012345678", undefined, 7,
         IF i % 2 = 0 THEN "Islamiyya" ELSE "Mosque/Majlis")

\* The store after the first k pupils registered one after the other; in
\* the reviewed store every third registration has then been approved.
Registered_k(k) ==
    RegisterAll([ students |-> << >>, sections |-> FullSections ],
                [ i \in 1..k |-> Pupil(i) ])

Reviewed(st) ==
    [ st EXCEPT !.students =
        [ i \in DOMAIN st.students |->
            IF i % 3 = 0 THEN UpdateStatus(st.students, i, "approved")[i]
            ELSE st.students[i] ] ]

\* Table sizes: empty, and every fourth size down from MaxRows.
RowCounts == { 0 } \cup { k \in 1..MaxRows : (MaxRows - k) % 4 = 0 }

ListedStores ==
    { Registered_k(k) : k \in RowCounts } \cup
    { Reviewed(Registered_k(k)) : k \in RowCounts }

InitList ==
    /\ \E st \in ListedStores :
        /\ students = st.students
        /\ sections = st.sections
        /\ pre = [r \in Req |-> [students |-> st.students, sections |-> st.sections]]
    /\ RegistrationIdle
    /\ OutsideIdle

NextList == ListRows \/ ListCount

SpecList == InitList /\ [][NextList]_vars

(* ------------------------- reading the catalog ------------------------- *)

\* ORDER BY s.name over the seeded names.
NameOrder == << "Higher Islamic", "Islamiyya", "Mosque/Majlis", "Nursery",
                "Primary School", "Tahfiz" >>

SectionsData    == [status |-> 200, message |-> ""]
SectionsFailure == [status |-> 500, message |-> "Failed to fetch sections"]

\* SELECT s.*, COUNT(st.id) as enrolled_students, (s.capacity -
\* s.current_enrollment) as available_spots FROM sections s LEFT JOIN
\* students st ON s.name = st.section AND st.status = 'approved'
\* WHERE s.is_active = 1 GROUP BY s.id ORDER BY s.name
SelectSections(secs, rows) ==
    LET active == SelectSeq(NameOrder, LAMBDA n :
                        n \in DOMAIN secs /\ secs[n].is_active = 1)
    IN  [ i \in DOMAIN active |->
            [ name               |-> active[i],
              capacity           |-> secs[active[i]].capacity,
              current_enrollment |-> secs[active[i]].current_enrollment,
              enrolled_students  |->
                  Cardinality({ j \in DOMAIN rows :
                                  /\ rows[j].section = active[i]
                                  /\ rows[j].status = "approved" }),
              available_spots    |->
                  secs[active[i]].capacity - secs[active[i]].current_enrollment ] ]

\* router.get('/') of routes/sections.js: one SELECT.
GetSections ==
    /\ listing.pc # "count"
    /\ \/ /\ faults < MaxFaults
          /\ faults' = faults + 1
          /\ listing' = [ NoListing EXCEPT !.route = "GET /sections", !.pc = "done",
                            !.response = SectionsFailure, !.seen = students ]
       \/ /\ listing' = [ NoListing EXCEPT !.route = "GET /sections", !.pc = "done",
                            !.data = SelectSections(sections, students),
                            !.response = SectionsData, !.seen = students ]
          /\ UNCHANGED faults
    /\ UNCHANGED << store, locals, history, patch, boots, admins, gate, messages, contact >>

ExportData        == [status |-> 200, message |-> ""]
InvalidExportType == [status |-> 400, message |-> "Invalid export type"]
NoDataToExport    == [status |-> 404, message |-> "No data to export"]
ExportFailure     == [status |-> 500, message |-> "Failed to export data"]

\* The number of rows the export's SELECT returns.
ExportedRecords(type) ==
    CASE type = "students" -> Len(students)
      [] type = "messages" -> Len(messages)
      [] type = "sections" -> Cardinality(DOMAIN sections)

\* router.get('/export/:type', authenticateToken, handler) for requests with
\* the given headers: one SELECT.
GetExportFor(authorizations) ==
    \E authHeader \in authorizations,
       type \in { "students", "messages", "sections", "payments" },
       format \in { "json", "csv" } :
        LET auth == authenticateToken(authHeader)
            answer(r, ran) ==
                [ route |-> "GET /export", authorization |-> authHeader,
                  response |-> r, handler |-> ran, before |-> admins, body |-> << >> ]
        IN
        /\ IF ~auth.next
           THEN gate' = answer(auth.response, FALSE) /\ UNCHANGED faults
           ELSE IF type \notin { "students", "messages", "sections" }
           THEN gate' = answer(InvalidExportType, TRUE) /\ UNCHANGED faults
           ELSE \/ /\ faults < MaxFaults
                   /\ faults' = faults + 1
                   /\ gate' = answer(ExportFailure, TRUE)
                \/ /\ gate' = answer(IF format = "csv" /\ ExportedRecords(type) = 0
                                     THEN NoDataToExport ELSE ExportData, TRUE)
                   /\ UNCHANGED faults
        /\ UNCHANGED << store, locals, history, patch, boots, admins, listing,
                        messages, contact >>

GetExport == GetExportFor(Authorizations)

(* ------------------------- contact messages ---------------------------- *)

\* req.body of a contact submission: one that passes contactValidation and
\* one that fails it in every field.
ContactBodies ==
    { [ name |-> "Amina Yusuf", email |-> "amina@example.com", phone |-> undefined,
        subject |-> "Admission", message |-> "When does the term start?" ],
      [ name |-> "A", email |-> "not-an-email", phone |-> "12345",
        subject |-> "Hi", message |-> "Hello" ] }

\* contactValidation + validationResult(req): the failing fields.
ContactErrors(b) ==
    { f \in { "name", "email", "phone", "subject", "message" } :
        \/ f = "name"    /\ ~isLength(b.name, 2, 100)
        \/ f = "email"   /\ ~isEmail(b.email)
        \/ f = "phone"   /\ b.phone # undefined /\ ~isMobilePhone(b.phone)
        \/ f = "subject" /\ ~isLength(b.subject, 5, 200)
        \/ f = "message" /\ ~isLength(b.message, 10, 1000) }

\* INSERT INTO contact_messages (name, email, phone, subject, message);
\* status DEFAULT 'unread'.
InsertMessage(rows, b) ==
    Append(rows, [ id |-> Len(rows) + 1, name |-> b.name, email |-> b.email,
                   phone |-> b.phone, subject |-> b.subject,
                   message |-> b.message, status |-> "unread" ])

\* `MSG${result.id.toString().padStart(6, '0')}`
MessageId(id) == << "M", "S", "G" >> \o padStart(toString(id), 6, "0")

MessageSent     == [status |-> 201,
                    message |-> "Your message has been sent successfully. We will get back to you soon."]
MessageFailure  == [status |-> 500,
                    message |-> "Failed to send message. Please try again."]
ContactNotFound == [status |-> 404, message |-> "Contact message not found"]
ContactData     == [status |-> 200, message |-> ""]
ContactFetchFailure == [status |-> 500, message |-> "Failed to fetch contact message"]
InvalidContactStatus ==
    [status |-> 400, message |-> "Invalid status. Must be unread, read, or replied"]
ContactStatusUpdated ==
    [status |-> 200, message |-> "Message status updated successfully"]
ContactStatusFailure ==
    [status |-> 500, message |-> "Failed to update message status"]

\* ['unread', 'read', 'replied']
ContactStatusValues == { "unread", "read", "replied" }

\* UPDATE contact_messages SET status = ?, updated_at = ... WHERE id = ?
UpdateMessageStatus(rows, id, status) ==
    [ i \in DOMAIN rows |->
        IF rows[i].id = id THEN [ rows[i] EXCEPT !.status = status ] ELSE rows[i] ]

\* process.env.ADMIN_EMAIL
ADMIN_EMAIL == "admin@musabmemorial.edu.ng"

\* A mutant of Notifications: both emails inside one try block, a failure of
\* the first skips the second.
Notifications_OneTry(b, first, second) ==
    IF first
    THEN << [ to |-> ADMIN_EMAIL, sent |-> first ], [ to |-> b.email, sent |-> second ] >>
    ELSE << [ to |-> ADMIN_EMAIL, sent |-> first ] >>

\* The two sendEmail calls of the contact handler, each in its own
\* try/catch: the notification to the administrator, then the auto-reply to
\* the sender.  first and second tell whether the call resolved (TRUE) or
\* threw (FALSE); the result is the sequence of the attempts made.
Notifications(b, first, second) ==
    << [ to |-> ADMIN_EMAIL, sent |-> first ], [ to |-> b.email, sent |-> second ] >>

\* router.post('/') of the contact routes: validation, INSERT, the two
\* notifications (each in its own try/catch, their outcome changes nothing),
\* 201.
ContactSubmit ==
    /\ Len(messages) < MaxMessages
    /\ \E b \in ContactBodies :
        IF ContactErrors(b) # {}
        THEN /\ contact' = [ NoContact EXCEPT !.route = "POST /contact",
                               !.response = ValidationFailed, !.before = messages,
                               !.body = b ]
             /\ UNCHANGED << messages, faults >>
        ELSE \/ /\ faults < MaxFaults
                /\ faults' = faults + 1
                /\ contact' = [ NoContact EXCEPT !.route = "POST /contact",
                                  !.response = MessageFailure, !.before = messages,
                                  !.body = b ]
                /\ UNCHANGED messages
             \/ /\ messages' = InsertMessage(messages, b)
                /\ \E first, second \in BOOLEAN :
                    contact' = [ NoContact EXCEPT !.route = "POST /contact",
                                  !.id = Len(messages'), !.response = MessageSent,
                                  !.messageId = MessageId(Len(messages')),
                                  !.before = messages, !.body = b,
                                  !.emails = Notifications(b, first, second) ]
                /\ UNCHANGED faults
    /\ UNCHANGED << store, locals, history, patch, boots, admins, gate, listing >>

\* router.get('/:id') of the contact routes: SELECT, and an unread message
\* is marked read.
ContactRead ==
    \E id \in 1..(Len(messages) + 1) :
        /\ \/ /\ faults < MaxFaults
              /\ faults' = faults + 1
              /\ contact' = [ NoContact EXCEPT !.route = "GET /contact/:id", !.id = id,
                                !.response = ContactFetchFailure, !.before = messages ]
              /\ UNCHANGED messages
           \/ /\ IF \A i \in DOMAIN messages : messages[i].id # id
                 THEN /\ contact' = [ NoContact EXCEPT !.route = "GET /contact/:id",
                                        !.id = id, !.response = ContactNotFound,
                                        !.before = messages ]
                      /\ UNCHANGED messages
                 ELSE /\ messages' = IF messages[id].status = "unread"
                                     THEN UpdateMessageStatus(messages, id, "read")
                                     ELSE messages
                      /\ contact' = [ NoContact EXCEPT !.route = "GET /contact/:id",
                                        !.id = id, !.status = "read",
                                        !.response = ContactData, !.before = messages ]
              /\ UNCHANGED faults
        /\ UNCHANGED << store, locals, history, patch, boots, admins, gate, listing >>

\* router.patch('/:id/status') of the contact routes.
ContactSetStatus ==
    \E id \in 1..(Len(messages) + 1),
       status \in { "unread", "read", "replied", "archived" } :
        LET answer(r) == [ NoContact EXCEPT !.route = "PATCH /contact/:id/status",
                             !.id = id, !.status = status, !.response = r,
                             !.before = messages ]
        IN
        /\ IF status \notin ContactStatusValues
           THEN /\ contact' = answer(InvalidContactStatus)
                /\ UNCHANGED << messages, faults >>
           ELSE \/ /\ faults < MaxFaults
                   /\ faults' = faults + 1
                   /\ contact' = answer(ContactStatusFailure)
                   /\ UNCHANGED messages
                \/ /\ messages' = UpdateMessageStatus(messages, id, status)
                   /\ contact' = answer(IF \A i \in DOMAIN messages : messages[i].id # id
                                        THEN ContactNotFound
                                        ELSE ContactStatusUpdated)
                   /\ UNCHANGED faults
        /\ UNCHANGED << store, locals, history, patch, boots, admins, gate, listing >>

\* The contact routes alone, on a fresh database.
NextContact == ContactSubmit \/ ContactRead \/ ContactSetStatus

SpecContact == Init /\ [][NextContact]_vars

(* ------------------------- everything together ------------------------- *)

\* No request other than registrations has been made so far.
OutsideQuiet == AdminIdle

\* A fresh database, or one that already holds a contact message.
InitAll ==
    /\ sections = SeededSections
    /\ students = << >>
    /\ pre      = [r \in Req |-> [students |-> << >>, sections |-> SeededSections]]
    /\ RegistrationIdle
    /\ AdminIdle
    /\ \E b \in ContactBodies :
        messages \in { << >>, IF ContactErrors(b) = {}
                              THEN InsertMessage(<< >>, b) ELSE << >> }

\* The requests of the other kinds made next to registrations: status
\* updates to rejected and back to pending, listings filtered by status, and
\* reads by the administrator.
QuietStatuses == { "rejected", "pending" }
QuietQueries  == { q \in Queries : DOMAIN q = { "status" } }
AdminHeader   == { << "Bearer", "admin.jwt" >> }

\* Registrations, and at any moment of them one request of another kind.
NextAll ==
    \/ \E r \in Req :
        \/ Submit(r)
        \/ CheckDuplicate(r)
        \/ GetSection(r)
        \/ Insert(r)
        \/ Update(r)
        \/ Notify(r)
    \/ OutsideQuiet /\ SetStatusFor({ "none" }, QuietStatuses)
    \/ OutsideQuiet /\ Restart
    \/ OutsideQuiet /\ ListRowsFor(QuietQueries)
    \/ ListCount
    \/ OutsideQuiet /\ GetSections
    \/ OutsideQuiet /\ GetDashboardFor(AdminHeader)
    \/ OutsideQuiet /\ GetExportFor(AdminHeader)
    \/ OutsideQuiet /\ ContactSubmit
    \/ OutsideQuiet /\ ContactRead
    \/ OutsideQuiet /\ ContactSetStatus

SpecAll == InitAll /\ [][NextAll]_vars

(* ------------------------- vocabulary of the claims -------------------- *)

Done(r) == pc[r] = "done"

WellFormed(b) == ValidationErrors(b) = {}

SameTriple(a, b) ==
    /\ a.studentName = b.studentName
    /\ a.parentName  = b.parentName
    /\ a.phone       = b.phone

\* Some row of the table carries the triple of the submission.
TripleRegistered(rows, b) ==
    \E i \in DOMAIN rows :
        << rows[i].student_name, rows[i].parent_name, rows[i].phone >>
            = << b.studentName, b.parentName, b.phone >>

\* The request ran with no other request in flight, and none arrived since:
\* the store now is the store it left.
Alone(r) == ~overlapped[r] /\ \A q \in Req : q > r => pc[q] = "idle"

StoreUntouchedBy(r) == students = pre[r].students /\ sections = pre[r].sections

\* The section the request names, as it stood when the request arrived.
SectionOnArrival(r) == pre[r].sections[body[r].section]

NamesSeededSection(r) == body[r].section \in DOMAIN pre[r].sections

HadFreeSlot(r) ==
    /\ NamesSeededSection(r)
    /\ SectionOnArrival(r).is_active = 1
    /\ SectionOnArrival(r).current_enrollment < SectionOnArrival(r).capacity

WasFull(r) ==
    /\ NamesSeededSection(r)
    /\ SectionOnArrival(r).is_active = 1
    /\ SectionOnArrival(r).current_enrollment = SectionOnArrival(r).capacity

Succeeded == { r \in Req : response[r] = Success }
CapacityRejected == { r \in Req : response[r] = CapacityExceeded }

(* ------------------------------- claims -------------------------------- *)

\* C1: in every reachable state every section has
\* current_enrollment <= capacity.
C1_CapacityNeverExceeded ==
    \A n \in DOMAIN sections :
        sections[n].current_enrollment <= sections[n].capacity

\* C2: when all NumReq requests are well-formed, carry pairwise different
\* triples, name the same active section, arrive before any of them wrote
\* (so each sees the same K free slots), K < NumReq and no statement faults,
\* then exactly K succeed and the other NumReq - K are rejected with
\* Capacity-Exceeded.
C2_ExactlyKSucceed ==
    LET K == SectionOnArrival(1).capacity - SectionOnArrival(1).current_enrollment
    IN  ( /\ \A r \in Req : Done(r) /\ WellFormed(body[r])
          /\ \A r \in Req : body[r].section = body[1].section /\ pre[r] = pre[1]
          /\ \A r, q \in Req : r # q => ~SameTriple(body[r], body[q])
          /\ HadFreeSlot(1)
          /\ ~TripleRegistered(pre[1].students, body[1])
          /\ K < NumReq
          /\ faults = 0 )
        => /\ Cardinality(Succeeded) = K
           /\ Cardinality(CapacityRejected) = NumReq - K

\* C3: no two rows of the students table share the triple
\* (student_name, parent_name, phone).
C3_TripleUnique ==
    \A i, j \in DOMAIN students :
        i # j => \/ students[i].student_name # students[j].student_name
                 \/ students[i].parent_name  # students[j].parent_name
                 \/ students[i].phone        # students[j].phone

\* C4: the row insert and the counter increment of a request are a unit: in
\* no state is the request's row in the table while its increment is missing.
C4_InsertAndIncrementAreAUnit ==
    \A r \in Req : inserts[r] = increments[r]

\* C5: a well-formed request that ran alone, met no matching triple and a
\* section with a free slot, and hit no store fault, succeeds; the table
\* gained exactly its row, its section's counter rose by exactly one and no
\* other section changed.
C5_AloneSubmissionSucceeds ==
    \A r \in Req :
        ( /\ Done(r) /\ Alone(r)
          /\ WellFormed(body[r])
          /\ ~TripleRegistered(pre[r].students, body[r])
          /\ HadFreeSlot(r)
          /\ response[r] # PersistenceFailure )
        => /\ response[r] = Success
           /\ Len(students) = Len(pre[r].students) + 1
           /\ SubSeq(students, 1, Len(pre[r].students)) = pre[r].students
           /\ result[r] = Len(students)
           /\ students[result[r]].id = result[r]
           /\ students[result[r]].student_name = body[r].studentName
           /\ students[result[r]].parent_name = body[r].parentName
           /\ students[result[r]].phone = body[r].phone
           /\ students[result[r]].section = body[r].section
           /\ DOMAIN sections = DOMAIN pre[r].sections
           /\ \A n \in DOMAIN sections :
                IF n = body[r].section
                THEN sections[n] =
                       [ pre[r].sections[n] EXCEPT !.current_enrollment = @ + 1 ]
                ELSE sections[n] = pre[r].sections[n]

\* Witness of C5: a request that ran alone has succeeded and the table is one
\* row longer than when it arrived.
C5_Witness ==
    \E r \in Req :
        /\ Done(r) /\ Alone(r) /\ response[r] = Success
        /\ Len(students) = Len(pre[r].students) + 1

\* C6 as stated: every submission to a section whose current_enrollment
\* equals its capacity fails with Capacity-Exceeded (store faults aside),
\* creates no row and changes no counter.
C6_EverySubmissionToFullSectionIsCapacityExceeded ==
    \A r \in Req :
        ( Done(r) /\ WasFull(r) /\ response[r] # PersistenceFailure )
        => /\ response[r] = CapacityExceeded
           /\ inserts[r] = 0 /\ increments[r] = 0

\* C6 as amended: a well-formed submission to a section whose
\* current_enrollment equals its capacity creates no row, changes no counter
\* and leaves the store as it found it; store faults aside, it fails with
\* Conflict when its triple is already registered and with Capacity-Exceeded
\* when it is not.
C6_FullSectionRejects ==
    \A r \in Req :
        ( Done(r) /\ WasFull(r) /\ WellFormed(body[r]) )
        => /\ inserts[r] = 0 /\ increments[r] = 0 /\ notifies[r] = 0
           /\ Alone(r) => StoreUntouchedBy(r)
           /\ response[r] \in {Conflict, CapacityExceeded, PersistenceFailure}
           /\ ( /\ TripleRegistered(pre[r].students, body[r])
                /\ response[r] # PersistenceFailure )
              => response[r] = Conflict
           /\ ( /\ ~TripleRegistered(students, body[r])
                /\ response[r] # PersistenceFailure )
              => response[r] = CapacityExceeded

\* Witness of C6: a well-formed submission that found its section full was
\* rejected with Capacity-Exceeded.
C6_Witness ==
    \E r \in Req :
        /\ Done(r) /\ WasFull(r) /\ WellFormed(body[r])
        /\ response[r] = CapacityExceeded
        /\ StoreUntouchedBy(r)

\* C7: a well-formed submission whose triple is already in the table when it
\* arrives (an earlier submission of the triple succeeded) fails with
\* Conflict, store faults aside; it creates no row, changes no counter and
\* leaves the store as it found it.
C7_RepeatedTripleConflicts ==
    \A r \in Req :
        ( /\ Done(r)
          /\ WellFormed(body[r])
          /\ TripleRegistered(pre[r].students, body[r]) )
        => /\ response[r] \in {Conflict, PersistenceFailure}
           /\ inserts[r] = 0 /\ increments[r] = 0 /\ notifies[r] = 0
           /\ Alone(r) => StoreUntouchedBy(r)

\* Witness of C7: the first submission of a triple succeeded and the second,
\* arriving after it, was answered 409.
C7_Witness ==
    \E r, q \in Req :
        /\ q < r /\ Done(q) /\ response[q] = Success
        /\ SameTriple(body[q], body[r])
        /\ ~overlapped[r]
        /\ Done(r) /\ response[r] = Conflict

\* C8: once the notification was attempted, the request ends in success with
\* its row in the table and its increment done, whether sendEmail resolved or
\* threw.
C8_NotificationFailureSwallowed ==
    \A r \in Req :
        ( Done(r) /\ notifies[r] > 0 )
        => /\ response[r] = Success
           /\ inserts[r] = 1 /\ increments[r] = 1
           /\ result[r] \in DOMAIN students
           /\ students[result[r]].id = result[r]
           /\ students[result[r]].student_name = body[r].studentName
           /\ sections[body[r].section].current_enrollment
                > pre[r].sections[body[r].section].current_enrollment

\* Witness of C8: sendEmail threw and the request was answered 201.
C8_Witness ==
    \E r \in Req :
        Done(r) /\ emailError[r] /\ response[r] = Success

\* C9: a request answered Validation-Failed, Conflict, Invalid-Section or
\* Capacity-Exceeded inserted no row, incremented no counter and attempted no
\* notification (and, run alone, left the store as it found it); a request
\* answered with success did one insert, one increment and at most one
\* notification attempt, none without an email address.
C9_EffectsOnSuccessPathOnly ==
    \A r \in Req :
        Done(r) =>
           /\ response[r] \in {ValidationFailed, Conflict, InvalidSection, CapacityExceeded}
              => /\ inserts[r] = 0 /\ increments[r] = 0 /\ notifies[r] = 0
                 /\ Alone(r) => StoreUntouchedBy(r)
           /\ response[r] = Success
              => /\ inserts[r] = 1 /\ increments[r] = 1
                 /\ notifies[r] <= 1
                 /\ body[r].email = undefined => notifies[r] = 0

\* Witness of C9: one request succeeded with a notification attempt and
\* another was rejected for capacity.
C9_Witness ==
    \E r, q \in Req :
        /\ Done(r) /\ response[r] = Success /\ notifies[r] = 1
        /\ Done(q) /\ response[q] = CapacityExceeded /\ inserts[q] = 0

\* C10: a request answered 500 left no row and no increment in the store,
\* and a resubmission of the same data, run alone after it without a fault,
\* is not rejected as a duplicate.
C10_FailedSubmissionIsRetryable ==
    \A r \in Req :
        ( Done(r) /\ response[r] = PersistenceFailure )
        => /\ inserts[r] = 0 /\ increments[r] = 0
           /\ \A q \in Req :
                ( /\ q > r /\ Done(q) /\ ~overlapped[q]
                  /\ body[q] = body[r]
                  /\ ~TripleRegistered(pre[r].students, body[r]) )
                => response[q] # Conflict

(* ------------------------- C19: the identifier ------------------------- *)

MBU == << "M", "B", "U" >>

\* The number a sequence of decimal digits writes.
RECURSIVE DecimalValue(_)
DecimalValue(str) ==
    IF str = << >>
    THEN 0
    ELSE 10 * DecimalValue(SubSeq(str, 1, Len(str) - 1))
         + (CHOOSE d \in 0..9 : Digits[d + 1] = str[Len(str)])

IsDigits(str) == \A i \in DOMAIN str : \E d \in 0..9 : Digits[d + 1] = str[i]

\* 'MBU', then the id in decimal, zero-padded on the left to 6 digits.
Identifies(str, id) ==
    /\ Len(str) >= 9
    /\ SubSeq(str, 1, 3) = MBU
    /\ IsDigits(SubSeq(str, 4, Len(str)))
    /\ DecimalValue(SubSeq(str, 4, Len(str))) = id
    /\ Len(str) > 9 => str[4] # "0"

\* Row ids at and around the padding width.
SampleIds == {1, 9, 10, 42, 99999, 100000, 999999, 1000000, 1234567}

\* The row of the students table with the given id is this body's row.
RowOf(id, b) ==
    /\ id \in DOMAIN students
    /\ students[id].id = id
    /\ students[id].student_name = b.studentName
    /\ students[id].parent_name = b.parentName
    /\ students[id].phone = b.phone
    /\ students[id].section = b.section

\* C19: the identifier a successful registration returns is 'MBU' followed by
\* the row id zero-padded to 6 digits, it names a row holding this request's
\* submission, and two successful registrations, concurrent or not, never
\* return the same identifier.
C19_IdentifierNamesTheInsertedRow ==
    /\ \A n \in SampleIds : Identifies(RegistrationId(n), n)
    /\ \A r \in Req :
        response[r] = Success =>
            /\ Identifies(payload[r].registrationId, payload[r].studentId)
            /\ RowOf(payload[r].studentId, body[r])
    /\ \A r, q \in Req :
        (r # q /\ response[r] = Success /\ response[q] = Success) =>
            /\ payload[r].registrationId # payload[q].registrationId
            /\ payload[r].studentId # payload[q].studentId

\* Two overlapping registrations of the same submission both succeeded.
C19_Witness ==
    \E r, q \in Req :
        /\ r # q
        /\ response[r] = Success /\ response[q] = Success
        /\ overlapped[r] /\ overlapped[q]
        /\ body[r] = body[q]
        /\ payload[r].registrationId = << "M", "B", "U", "0", "0", "0", "0", "0", "1" >>
        /\ payload[q].registrationId = << "M", "B", "U", "0", "0", "0", "0", "0", "2" >>

(* ------------------------- C20: validation ----------------------------- *)

\* The rule of each field, as the interface states it.
BreaksRule(b, f) ==
    CASE f = "parentName"  -> b.parentName = undefined
                              \/ Len(b.parentName) \notin 2..100
      [] f = "phone"       -> b.phone # "+2348012345678"
      [] f = "email"       -> b.email \notin {undefined, "amina@example.com"}
      [] f = "studentName" -> b.studentName = undefined
                              \/ Len(b.studentName) \notin 2..100
      [] f = "studentAge"  -> b.studentAge \notin 3..30
      [] f = "section"     -> b.section \notin
                                {"Nursery", "Primary", "Islamiyya", "Tahfiz",
                                 "Higher Islamic", "Mosque/Majlis"}
      [] f = "paymentPlan" -> b.paymentPlan \notin {"Termly Plan", "Annual Plan"}
      [] f = "comments"    -> b.comments # undefined /\ Len(b.comments) > 500

Fields == { "parentName", "phone", "email", "studentName", "studentAge",
            "section", "paymentPlan", "comments" }

BrokenFields(b) == { f \in Fields : BreaksRule(b, f) }

\* C20: a submission that breaks the rule of one or more fields is answered
\* 400 'Validation failed' with an error list naming every field that fails,
\* and the request has issued no store statement and changed no row.
C20_ValidationNamesEveryFailingField ==
    \A r \in Req :
        /\ (Done(r) /\ BrokenFields(body[r]) # {}) =>
                /\ response[r] = ValidationFailed
                /\ payload[r].errors = BrokenFields(body[r])
                /\ statements[r] = 0
                /\ inserts[r] = 0 /\ increments[r] = 0 /\ notifies[r] = 0
        /\ response[r] = ValidationFailed => BrokenFields(body[r]) # {}

\* A submission failing in all eight fields was answered while the store
\* already held a registration.
C20_Witness ==
    \E r \in Req :
        /\ response[r] = ValidationFailed
        /\ payload[r].errors = Fields
        /\ students # << >>

(* ------------------------- C11, C13, C14: set_status ------------------- *)

Statuses == { "pending", "approved", "rejected" }

\* A status update has been answered, and not with a store fault.
Patched == patch.response \notin { NoResponse, StatusUpdateFailure }

\* The ids of the rows the table held when the status update arrived.
IdsBefore == { patch.before[i].id : i \in DOMAIN patch.before }

\* C11 (as stated): a status update that carries no valid credential leaves
\* the status of every registration as it was.
C11_StatusChangeNeedsCredential ==
    patch.credential # "valid" =>
        \A i \in DOMAIN patch.before : students[i].status = patch.before[i].status

\* C13: a status update naming an existing row and one of the three statuses
\* is answered 200, sets that row's status to the new one whatever it was
\* before, and leaves every other row and every other column as they were.
C13_AnyToAny ==
    (Patched /\ patch.id \in IdsBefore /\ patch.status \in Statuses) =>
        /\ patch.response = StatusUpdated
        /\ DOMAIN students = DOMAIN patch.before
        /\ \A i \in DOMAIN students :
            students[i] = IF patch.before[i].id = patch.id
                          THEN [ patch.before[i] EXCEPT !.status = patch.status ]
                          ELSE patch.before[i]

\* A rejected registration was set back to pending, next to another row.
C13_Witness ==
    /\ patch.response = StatusUpdated
    /\ Len(students) >= 2
    /\ patch.before[patch.id].status = "rejected"
    /\ patch.status = "pending"
    /\ students[patch.id].status = "pending"

\* C14: store faults aside, a status update fails in exactly two cases, 404
\* when the id names no row and 400 when the new status is none of the
\* three; a failed update changes no row, and the 400 is decided before the
\* store is reached (so it is never a store fault).
C14_FailsInTwoCases ==
    /\ Patched =>
        /\ patch.response \in { StatusUpdated, RegistrationNotFound, InvalidStatus }
        /\ patch.response = InvalidStatus <=> patch.status \notin Statuses
        /\ patch.response = RegistrationNotFound <=>
                (patch.status \in Statuses /\ patch.id \notin IdsBefore)
        /\ patch.response # StatusUpdated => students = patch.before
    /\ (patch.response # NoResponse /\ patch.status \notin Statuses) =>
            patch.response = InvalidStatus

\* An update for an id that names no row of a table holding rows was
\* answered 404.
C14_Witness ==
    /\ patch.response = RegistrationNotFound
    /\ patch.before # << >>
    /\ \E i \in DOMAIN students : students[i].status # "pending"

(* ------------------------- C18: seeding -------------------------------- *)

\* C18: seeding is keyed by the section name: on an empty table it inserts
\* one row per default section, and starting the server again on its
\* database adds no section row and changes no column of an existing one
\* (capacity, current_enrollment and is_active stay), nor any registration.
C18_SeedingIsIdempotent ==
    /\ [][boots' # boots => (sections' = sections /\ students' = students)]_vars
    /\ [](/\ DOMAIN insertDefaultSections(NoSections, DefaultSections)
                = { "Nursery", "Primary School", "Islamiyya", "Tahfiz",
                    "Higher Islamic", "Mosque/Majlis" }
          /\ DOMAIN sections = DOMAIN insertDefaultSections(NoSections, DefaultSections))

\* The server was started again on a database in which a section has
\* enrolled students.
C18_Witness ==
    /\ boots > 0
    /\ \E n \in DOMAIN sections : sections[n].current_enrollment > 0
    /\ students # << >>

(* ------------------------- C12: the gate ------------------------------- *)

\* Authorization headers that present no credential, and headers that
\* present one that is expired or was not signed by the server.
WithoutCredential == { << >>, << "Bearer" >>, << "Bearer", "" >> }
BadCredential     == { << "Bearer", "expired.jwt" >>, << "Bearer", "forged.jwt" >> }

\* C12: a request to a protected route is answered 401 when it presents no
\* credential and 403 when the credential is invalid or expired; in both
\* cases the handler is not invoked and nothing changes; the handler runs
\* only for a credential that verifies.
C12_GateRefusesBeforeHandler ==
    gate.response # NoResponse =>
        /\ gate.authorization \in WithoutCredential =>
                /\ gate.response = [status |-> 401, message |-> "Access token required"]
                /\ ~gate.handler
                /\ admins = gate.before
        /\ gate.authorization \in BadCredential =>
                /\ gate.response = [status |-> 403, message |-> "Invalid or expired token"]
                /\ ~gate.handler
                /\ admins = gate.before
        /\ gate.handler => gate.authorization = << "Bearer", "admin.jwt" >>
        /\ gate.authorization = << "Bearer", "admin.jwt" >> => gate.handler

\* An expired credential was refused on the profile route after an earlier
\* update of the profile had gone through.
C12_Witness ==
    /\ gate.route = "PUT /profile"
    /\ gate.authorization = << "Bearer", "expired.jwt" >>
    /\ gate.response.status = 403
    /\ admins # createDefaultAdmin(<< >>)

(* ------------------------- C16, C17: listing --------------------------- *)

\* The row satisfies the filters the query sent.
Satisfies(row, query) ==
    /\ "status" \in DOMAIN query => row.status = query.status
    /\ "section" \in DOMAIN query => row.section = query.section

\* The number of rows of a table that satisfy the filters of the query.
Matches(rows, query) ==
    Cardinality({ i \in DOMAIN rows : Satisfies(rows[i], query) })

\* C16: in a listing response, total is the number of stored rows that
\* satisfy the filters of the query, every returned row is a stored row that
\* satisfies the same filters, and no row is returned twice.
C16_TotalCountsTheFilteredRows ==
    listing.response = Listed =>
        /\ listing.total = Matches(listing.counted, listing.query)
        /\ \A i \in DOMAIN listing.data :
            /\ Satisfies(listing.data[i], listing.query)
            /\ \E j \in DOMAIN listing.seen : listing.seen[j] = listing.data[i]
        /\ \A i, j \in DOMAIN listing.data :
            i # j => listing.data[i].id # listing.data[j].id

\* A listing filtered by status and section returned some rows of a table
\* holding others too.
C16_Witness ==
    /\ listing.response = Listed
    /\ { "status", "section" } \subseteq DOMAIN listing.query
    /\ listing.data # << >>
    /\ listing.total > 0
    /\ listing.total < Len(students)

\* page and limit of the query, 1 and 20 when not sent.
PageAsked(query)  == IF "page" \in DOMAIN query THEN query.page ELSE 1
LimitAsked(query) == IF "limit" \in DOMAIN query THEN query.limit ELSE 20

Max(a, b) == IF a > b THEN a ELSE b

\* C17: for page p >= 1 and limit l >= 1 over T matching rows, the listing
\* returns min(l, max(0, T - (p-1)*l)) rows and reports ceil(T / l) pages;
\* with 25 pending rows, status=pending, page=2 and limit=10 it returns 10
\* rows and reports 3 pages.
C17_PageSizeAndPageCount ==
    listing.response = Listed =>
        LET T == Matches(listing.seen, listing.query)
            p == PageAsked(listing.query)
            l == LimitAsked(listing.query)
        IN  /\ Len(listing.data) = Min(l, Max(0, T - (p - 1) * l))
            /\ listing.total = T
            /\ listing.pages * l >= T
            /\ (listing.pages - 1) * l < T
            /\ listing.pages >= 0
            /\ (T = 25 /\ listing.query = [ status |-> "pending", page |-> 2, limit |-> 10 ])
                    => (Len(listing.data) = 10 /\ listing.pages = 3)

\* Page 2 of 10 was asked of 25 pending registrations.
C17_Witness ==
    /\ listing.response = Listed
    /\ Len(students) = 25
    /\ \A i \in DOMAIN students : students[i].status = "pending"
    /\ listing.query = [ status |-> "pending", page |-> 2, limit |-> 10 ]
    /\ Len(listing.data) = 10
    /\ listing.pages = 3

(* ------------------------- C15: the enrollment counter ----------------- *)

\* C15: in every step each section's current_enrollment stays or rises by
\* one; it rises only in the UPDATE of a registration that has inserted its
\* row, only for that registration's section, and that registration is
\* answered 201; a status update (also to rejected), a listing, a read of
\* sections, dashboard or export, a contact request and a restart leave every
\* counter as it was.
C15_CounterRisesOnlyByRegistration ==
    /\ [][ /\ DOMAIN sections' = DOMAIN sections
           /\ \A n \in DOMAIN sections :
                sections'[n].current_enrollment \in
                    { sections[n].current_enrollment,
                      sections[n].current_enrollment + 1 }
           /\ sections' # sections =>
                \E r \in Req :
                    /\ pc[r] = "update"
                    /\ inserts[r] = 1
                    /\ increments'[r] = increments[r] + 1
                    /\ sections' = [ sections EXCEPT
                           ![body[r].section].current_enrollment = @ + 1 ]
           /\ ( \/ patch' # patch \/ listing' # listing \/ gate' # gate
                \/ contact' # contact \/ messages' # messages \/ boots' # boots )
                => sections' = sections
         ]_vars
    /\ [](\A r \in Req : (increments[r] > 0 /\ Done(r)) => response[r] = Success)

\* A registration was set to rejected and its section still counts it.
C15_Witness ==
    /\ patch.response = StatusUpdated
    /\ patch.status = "rejected"
    /\ students[patch.id].status = "rejected"
    /\ sections[students[patch.id].section].current_enrollment = 1
    /\ \E r \in Req : response[r] = Success /\ payload[r].studentId = patch.id

(* ------------------------- C21: a new row ------------------------------ *)

\* C21: every step that adds rows to the students table adds them with
\* status pending and payment_status unpaid, whatever the submission carries
\* and whatever the status of the rows already stored.
C21_RowsAreCreatedPendingUnpaid ==
    [][ \A i \in DOMAIN students' \ DOMAIN students :
            /\ students'[i].status = "pending"
            /\ students'[i].payment_status = "unpaid" ]_vars

\* A submission carrying status 'approved' and payment_status 'paid' was
\* registered, and its row is pending and unpaid.
C21_Witness ==
    \E r \in Req :
        /\ response[r] = Success
        /\ "status" \in DOMAIN body[r]
        /\ body[r].status = "approved"
        /\ body[r].payment_status = "paid"
        /\ students[payload[r].studentId].status = "pending"
        /\ students[payload[r].studentId].payment_status = "unpaid"

(* ------------------------- C22: the order of the checks ---------------- *)

\* What the checks, taken in the order validation, duplicate, section,
\* capacity on the store as the request found it, decide.
FirstFailingCheck(r) ==
    IF BrokenFields(body[r]) # {} THEN ValidationFailed
    ELSE IF TripleRegistered(pre[r].students, body[r]) THEN Conflict
    ELSE IF ~NamesSeededSection(r) \/ SectionOnArrival(r).is_active # 1
    THEN InvalidSection
    ELSE IF WasFull(r) THEN CapacityExceeded
    ELSE Success

\* The statements a request has issued when it is answered with the given
\* response: none before 400 'Validation failed', the duplicate query before
\* 409, the section query too before the two section answers.
StatementsBefore(resp) ==
    CASE resp = ValidationFailed -> 0
      [] resp = Conflict         -> 1
      [] resp = InvalidSection   -> 2
      [] resp = CapacityExceeded -> 2

\* C22: store faults aside, a submission that ran alone is answered by the
\* first failing check in the order validation, duplicate, section
\* resolution, capacity (so a duplicate naming a full or unknown section gets
\* 409), and any submission answered by a failing check has issued only the
\* statements up to that check and has written nothing.
C22_FirstFailingCheckDecides ==
    \A r \in Req :
        /\ (Done(r) /\ Alone(r) /\ response[r] # PersistenceFailure) =>
                response[r] = FirstFailingCheck(r)
        /\ response[r] \in { ValidationFailed, Conflict, InvalidSection,
                             CapacityExceeded } =>
                /\ statements[r] = StatementsBefore(response[r])
                /\ inserts[r] = 0 /\ increments[r] = 0 /\ notifies[r] = 0

\* A registered student was submitted again, alone, for a section that is
\* full, and the answer was 409.
C22_Witness ==
    \E r \in Req :
        /\ Alone(r)
        /\ response[r] = Conflict
        /\ TripleRegistered(pre[r].students, body[r])
        /\ WasFull(r)

(* ------------------------- C23: the order of the events ---------------- *)

\* The submission gave an email address.
GaveEmail(r) == body[r].email # undefined

\* C23: in every step of a submission, the row is inserted before anything
\* else happens, the counter rises only after the insert, the notification
\* is called and resolves only after both writes, and the 201 is sent only
\* after both writes and, when an email address was given, together with the
\* resolution of the notification attempt, whether it succeeded or failed;
\* without an address no notification is attempted.
C23_InsertIncrementNotifyRespond ==
    /\ [][ \A r \in Req :
            /\ inserts'[r] # inserts[r] =>
                    /\ increments[r] = 0 /\ notifies[r] = 0
                    /\ response'[r] = NoResponse
            /\ increments'[r] # increments[r] =>
                    /\ inserts[r] = 1 /\ notifies[r] = 0
                    /\ response[r] = NoResponse
            /\ notifies'[r] # notifies[r] =>
                    /\ inserts[r] = 1 /\ increments[r] = 1
                    /\ response[r] = NoResponse
            /\ (response'[r] = Success /\ response[r] # Success) =>
                    /\ inserts'[r] = 1 /\ increments'[r] = 1
                    /\ GaveEmail(r) => (increments[r] = 1 /\ notifies[r] = 0
                                        /\ notifies'[r] = 1)
                    /\ ~GaveEmail(r) => notifies'[r] = 0
         ]_vars
    /\ [](\A r \in Req :
            pc[r] = "email" =>
                /\ inserts[r] = 1 /\ increments[r] = 1
                /\ response[r] = NoResponse)

\* A submission that overlapped another went through insert, increment and
\* a failed notification attempt, and was answered 201.
C23_Witness ==
    \E r \in Req :
        /\ response[r] = Success
        /\ overlapped[r]
        /\ inserts[r] = 1 /\ increments[r] = 1 /\ notifies[r] = 1
        /\ emailError[r]

(* ------------------------- C24: every seeded section is reachable ------ *)

\* The rules of the fields other than the section name are all met.
OtherFieldsWellFormed(b) == BrokenFields(b) \ {"section"} = {}

\* C24: a submission that ran alone and met no store fault, well-formed in
\* every other field, not a duplicate, naming a seeded section by its stored
\* name while the section had a free slot, is answered 201.
C24_SeededSectionsAreReachable ==
    \A r \in Req :
        ( /\ Done(r) /\ Alone(r)
          /\ response[r] # PersistenceFailure
          /\ OtherFieldsWellFormed(body[r])
          /\ ~TripleRegistered(pre[r].students, body[r])
          /\ body[r].section \in SeededNames
          /\ HadFreeSlot(r) )
        => response[r] = Success

(* ------------------------- C25: counters count the rows ---------------- *)

\* The rows of the table registered for the section.
RowsOf(name) == { i \in DOMAIN students : students[i].section = name }

\* No request stands between its INSERT and its UPDATE of the counter.
NoneBetweenWrites == \A r \in Req : pc[r] # "update"

\* C25: while no store fault has occurred and no registration stands between
\* its insert and its increment, each section's current_enrollment equals
\* the number of rows of the table registered for that section, whatever the
\* statuses of the rows.
C25_CounterEqualsRowCount ==
    ( faults = 0 /\ NoneBetweenWrites ) =>
        \A n \in DOMAIN sections :
            sections[n].current_enrollment = Cardinality(RowsOf(n))

\* Two submissions that overlapped both registered for one section, one of
\* the two rows was rejected afterwards, and the counter stands at two.
C25_Witness ==
    /\ faults = 0 /\ NoneBetweenWrites
    /\ \E r, q \in Req :
        /\ r # q /\ overlapped[r]
        /\ response[r] = Success /\ response[q] = Success
        /\ body[r].section = body[q].section
        /\ sections[body[r].section].current_enrollment = 2
        /\ Cardinality(RowsOf(body[r].section)) = 2
        /\ \E i \in RowsOf(body[r].section) : students[i].status = "rejected"

(* ------------------------- C26: a contact submission ------------------- *)

\* The rules of the contact form, as the interface states them.
ContactWellFormed(b) ==
    /\ b.name # undefined /\ Len(b.name) \in 2..100
    /\ b.email = "amina@example.com"
    /\ b.phone \in { undefined, "+2348012345678" }
    /\ b.subject # undefined /\ Len(b.subject) \in 5..200
    /\ b.message # undefined /\ Len(b.message) \in 10..1000

MSG == << "M", "S", "G" >>

\* C26: a well-formed contact submission whose INSERT did not fail has added
\* exactly one row, carrying the submitted fields and status unread, and is
\* answered 201 with 'MSG' followed by the row id as six decimal digits; both
\* emails were attempted, first the one to the administrator, then the one to
\* the sender, whatever the outcome of either.
C26_ContactSubmissionStoresAndAnswers ==
    ( /\ contact.route = "POST /contact"
      /\ ContactWellFormed(contact.body)
      /\ contact.response # MessageFailure )
    => /\ contact.response = MessageSent
       /\ Len(messages) = Len(contact.before) + 1
       /\ SubSeq(messages, 1, Len(contact.before)) = contact.before
       /\ LET row == messages[Len(messages)]
          IN /\ row.status = "unread"
             /\ row.name = contact.body.name
             /\ row.email = contact.body.email
             /\ row.subject = contact.body.subject
             /\ row.message = contact.body.message
             /\ \A i \in 1..Len(contact.before) : messages[i].id # row.id
             /\ Len(contact.messageId) = 9
             /\ SubSeq(contact.messageId, 1, 3) = MSG
             /\ IsDigits(SubSeq(contact.messageId, 4, 9))
             /\ DecimalValue(SubSeq(contact.messageId, 4, 9)) = row.id
       /\ Len(contact.emails) = 2
       /\ contact.emails[1].to = "admin@musabmemorial.edu.ng"
       /\ contact.emails[2].to = contact.body.email

\* The second message of the table was stored and answered 201; the email to
\* the administrator had failed and the auto-reply was still attempted.
C26_Witness ==
    /\ contact.route = "POST /contact"
    /\ contact.response = MessageSent
    /\ Len(contact.before) = 1 /\ Len(messages) = 2
    /\ Len(contact.emails) = 2
    /\ ~contact.emails[1].sent
    /\ messages[2].status = "unread"

(* ------------------------- C27: the status of a contact message -------- *)

\* The place of a status along unread -> read -> replied.
Rank(status) == CASE status = "unread"  -> 1
                  [] status = "read"    -> 2
                  [] status = "replied" -> 3

\* The step is an answered fetch of the message with this id.
Fetched(id) ==
    /\ contact'.route = "GET /contact/:id"
    /\ contact'.id = id
    /\ contact'.response = ContactData

\* C27: a fetch of a message by id turns unread into read and leaves read
\* and replied as they were, and in no step of any contact request does the
\* status of a stored message move back along unread -> read -> replied.
C27_StatusOnlyMovesForward ==
    [][ \A i \in DOMAIN messages :
            /\ i \in DOMAIN messages'
            /\ Fetched(i) =>
                    messages'[i].status =
                        IF messages[i].status = "unread"
                        THEN "read"
                        ELSE messages[i].status
            /\ Rank(messages'[i].status) >= Rank(messages[i].status)
      ]_vars

(* ------------------------- C28: a rejected profile update -------------- *)

\* The administrator who made the request, before the request.
Requester == CHOOSE i \in DOMAIN gate.before : gate.before[i].id = 1

\* The request asks for another email than the requester's.
AsksNewEmail ==
    /\ gate.body.email \notin { undefined, "not-an-email" }
    /\ gate.body.email # gate.before[Requester].email

\* The request carries both passwords and the current one is not the
\* requester's.
WrongPassword ==
    /\ gate.body.currentPassword # undefined
    /\ gate.body.newPassword # undefined
    /\ gate.before[Requester].password_hash # << "$2a$10$", gate.body.currentPassword >>

\* C28: a profile update answered 409 'Email already in use', 400 'Current
\* password is incorrect' or 400 'No valid fields to update' has left the
\* admin_users table as it was, email and password hash of every row
\* included; a request that passed the gate and validation and met no store
\* fault is answered 409 when its new email is held by another
\* administrator, else 400 when its current password is wrong - also when
\* it supplies a new, free email - and else 400 when it asks for neither a
\* new email nor a new password.
C28_RejectedProfileUpdateChangesNothing ==
    ( gate.route = "PUT /profile" /\ gate.handler ) =>
        /\ gate.response \in { EmailInUse, PasswordIncorrect, NoValidFields } =>
                admins = gate.before
        /\ gate.response \notin { ValidationFailed, ProfileFailure } =>
            LET taken == AsksNewEmail /\ \E i \in DOMAIN gate.before :
                            /\ i # Requester
                            /\ gate.before[i].email = gate.body.email
                both  == gate.body.currentPassword # undefined
                         /\ gate.body.newPassword # undefined
            IN /\ taken => gate.response = EmailInUse
               /\ (~taken /\ WrongPassword) => gate.response = PasswordIncorrect
               /\ (~AsksNewEmail /\ ~both) => gate.response = NoValidFields

\* With a second administrator in the table, a request with a wrong current
\* password and a new email nobody holds was answered 400 and the table is as
\* it was.
C28_Witness ==
    /\ gate.route = "PUT /profile"
    /\ gate.response = PasswordIncorrect
    /\ Len(gate.before) = 2
    /\ AsksNewEmail
    /\ admins = gate.before

\* A request for the email of the second administrator was answered 409.
C28_WitnessEmailInUse ==
    /\ gate.route = "PUT /profile"
    /\ gate.response = EmailInUse
    /\ gate.body.email = "head@musabmemorial.edu.ng"
    /\ admins = gate.before

====
